---- MODULE Spec2Model ----
(***************************************************************************)
(* A model of strax's option model (strax/config.py) and of the synthetic  *)
(* bound / record generators of strax/testutils.py.                        *)
(*                                                                         *)
(* Python values are modelled as strings ("i0", "i1" are integers, "s0" a  *)
(* text value), Python objects as records, dictionaries as functions whose *)
(* domain is the set of keys.                                              *)
(***************************************************************************)
EXTENDS Integers, Sequences, FiniteSets, TLC

VARIABLES
    option,        \* the Option (or Config) object under study, or NoOption
    config,        \* the plugin's config attribute: [has, map]
    factoryCalls,  \* how often the option's default_factory has been invoked
    ret,           \* the last call: operation, arguments, state before, outcome
    heap,          \* the Option objects declared on plugin classes, by identity
    registry,      \* each class's own takes_config attribute: [has, map]
    installed,     \* each class's attribute-bound options: name -> identity
    loading        \* how far the import of strax.testutils has got

optVars == <<option, config, factoryCalls>>

regVars == <<heap, registry, installed, loading>>

vars == <<option, config, factoryCalls, ret, heap, registry, installed, loading>>

----------------------------------------------------------------------------
(* Bounds of the model *)

\* default_factory is invoked at most this often in one behaviour
MaxFactoryCalls == 2

\* Option objects on the heap of the registration model
MaxOptions == 3

\* Options passed to one takes_config call
MaxCallOptions == 2

----------------------------------------------------------------------------
(* Values *)

\* Placeholder for omitted values (config.py line 12)
Omitted == "<OMITTED>"

\* An attribute that was never assigned (Option.taken_by is only annotated)
Unset == "<unset>"

\* Option names and config keys
Names == {"a", "b"}

\* Values a user supplies as defaults and config entries
IntValues == {"i0", "i1"}

StrValues == {"s0"}

UserValues == IntValues \cup StrValues

\* isinstance(value, type) for the types used here
IsInstance(value, type) ==
    IF type = "int" THEN value \in IntValues ELSE value \in StrValues

\* The value the default_factory produces on its k-th invocation (k from 0):
\* a factory is an arbitrary callable, so successive calls may differ
FactoryOutput(k) ==
    CASE k = 0 -> "f0"
      [] k = 1 -> "f1"
      [] k = 2 -> "f2"
      [] OTHER -> "fn"

\* max(S)
SetMax(S) == CHOOSE x \in S : \A y \in S : y <= x

\* Python dictionaries
EmptyDict == << >>

Put(m, k, v) == [x \in (DOMAIN m) \cup {k} |-> IF x = k THEN v ELSE m[x]]

\* dict.update / {**a, **b}
Update(a, b) ==
    [x \in (DOMAIN a) \cup (DOMAIN b) |-> IF x \in DOMAIN b THEN b[x] ELSE a[x]]

Dicts(keys, values) == UNION {[d -> values] : d \in SUBSET keys}

\* run_defaults: None or a dictionary
NoneDict == [isNone |-> TRUE, map |-> EmptyDict]

SomeDict(m) == [isNone |-> FALSE, map |-> m]

\* Run ids: None, an integer, or a text string (a sequence of characters)
NoneRun == [t |-> "none", n |-> 0, s |-> << >>]

IntRun(n) == [t |-> "int", n |-> n, s |-> << >>]

StrRun(s) == [t |-> "str", n |-> 0, s |-> s]

\* default_by_run: omitted, a callable, or a list of (start_run, value)
ByRunOmitted == [kind |-> "omitted", table |-> << >>]

ByRunCallable == [kind |-> "callable", table |-> << >>]

ByRunTable(t) == [kind |-> "table", table |-> t]

Pair(s, v) == [start |-> s, value |-> v]

Tables ==
    { << >>,
      <<Pair(1, "i1")>>,
      <<Pair(0, "i0"), Pair(2, "i1")>>,
      <<Pair(0, "i0"), Pair(1, "s0"), Pair(3, "i1")>>,
      <<Pair(2, "i1"), Pair(0, "i0")>> }

\* strax.deterministic_hash of a default_by_run list: one text per list
DeterministicHash(t) ==
    CASE t = << >> -> "h0"
      [] Len(t) = 1 -> "h1"
      [] Len(t) = 3 -> "h3"
      [] t[1].start = 0 -> "h2"
      [] OTHER -> "h4"

\* "<SUBRUN-DEPENDENT:%s>" % hash
SubrunPlaceholder(t) ==
    CASE DeterministicHash(t) = "h0" -> "<SUBRUN-DEPENDENT:h0>"
      [] DeterministicHash(t) = "h1" -> "<SUBRUN-DEPENDENT:h1>"
      [] DeterministicHash(t) = "h2" -> "<SUBRUN-DEPENDENT:h2>"
      [] DeterministicHash(t) = "h3" -> "<SUBRUN-DEPENDENT:h3>"
      [] OTHER -> "<SUBRUN-DEPENDENT:h4>"

----------------------------------------------------------------------------
(* Outcomes of a call *)

NoValue == "<no value>"

Return(v, calls) ==
    [kind |-> "return", value |-> v, exc |-> "", about |-> << >>, calls |-> calls]

Raise(e, about, calls) ==
    [kind |-> "raise", value |-> NoValue, exc |-> e, about |-> about, calls |-> calls]

----------------------------------------------------------------------------
(* Option.__init__ *)

NoOption == [st |-> "none"]

PyNone == "<None>"

\* The object __init__ leaves behind when it does not raise
NewOption(klass, name, type, default, default_factory, default_by_run, child_option, parent_option_name) ==
    [st |-> "option", klass |-> klass, name |-> name, type |-> type,
     default |-> default, default_by_run |-> default_by_run,
     default_factory |-> default_factory,
     child_option |-> child_option, parent_option_name |-> parent_option_name,
     taken_by |-> Unset]

\* sum([default is not omitted, default_factory is not omitted,
\*      default_by_run is not omitted])
NumDefaults(default, default_factory, default_by_run) ==
    (IF default # Omitted THEN 1 ELSE 0)
    + (IF default_factory # Omitted THEN 1 ELSE 0)
    + (IF default_by_run.kind # "omitted" THEN 1 ELSE 0)

\* Faulty variant of ChildMismatch: only the child_option-without-parent case is checked
ChildMismatch_OneSided(child_option, parent_option_name) ==
    child_option /\ parent_option_name = PyNone

\* The child_option / parent_option_name check of __init__
ChildMismatch(child_option, parent_option_name) ==
    \/ (child_option /\ parent_option_name = PyNone)
    \/ (~child_option /\ parent_option_name # PyNone)

\* The exception __init__ raises, or "" when it raises none
InitError(default, default_factory, default_by_run, child_option, parent_option_name) ==
    IF ChildMismatch(child_option, parent_option_name) THEN "ValueError"
    ELSE IF NumDefaults(default, default_factory, default_by_run) > 1 THEN "RuntimeError"
    ELSE ""

----------------------------------------------------------------------------
(* Option.get_default *)

IsDigit(c) == c \in {"0", "1", "2", "3"}

DigitValue(c) ==
    CASE c = "0" -> 0
      [] c = "1" -> 1
      [] c = "2" -> 2
      [] OTHER -> 3

\* run_id.replace("_", "")
RECURSIVE StripUnderscores(_)
StripUnderscores(s) ==
    IF s = << >> THEN << >>
    ELSE IF Head(s) = "_" THEN StripUnderscores(Tail(s))
    ELSE <<Head(s)>> \o StripUnderscores(Tail(s))

\* int(text) succeeds on a non-empty string of digits
IntParses(s) == s # << >> /\ \A i \in 1..Len(s) : IsDigit(s[i])

RECURSIVE IntOfDigits(_, _)
IntOfDigits(s, acc) ==
    IF s = << >> THEN acc
    ELSE IntOfDigits(Tail(s), 10 * acc + DigitValue(Head(s)))

\* run_id.startswith("_")
IsSuperrun(run_id) ==
    run_id.t = "str" /\ run_id.s # << >> /\ Head(run_id.s) = "_"

\* Faulty variant of UseValue: the loop already stops at a pair that starts at run_id
RECURSIVE UseValue_StopsAtEqual(_, _, _)
UseValue_StopsAtEqual(table, rid, use_value) ==
    IF table = << >> THEN use_value
    ELSE IF Head(table).start >= rid THEN use_value
    ELSE UseValue_StopsAtEqual(Tail(table), rid, Head(table).value)

\* The loop over default_by_run: use_value after the loop, omitted if the
\* first start_run is already larger than run_id
RECURSIVE UseValue(_, _, _)
UseValue(table, rid, use_value) ==
    IF table = << >> THEN use_value
    ELSE IF Head(table).start > rid THEN use_value
    ELSE UseValue(Tail(table), rid, Head(table).value)

\* The legacy default_by_run branch of get_default (lines 157-191)
LegacyDefault(o, run_id, calls) ==
    LET rid0 == IF run_id.t = "none" THEN IntRun(0) ELSE run_id
        is_superrun == IsSuperrun(rid0)
        stripped == IF rid0.t = "str" THEN StripUnderscores(rid0.s) ELSE << >>
    IN  IF rid0.t = "str" /\ ~is_superrun /\ ~IntParses(stripped)
        THEN Raise("ValueError", <<"invalid literal for int()">>, calls)
        ELSE IF o.default_by_run.kind = "callable"
        THEN Raise("RuntimeError", <<"functions no longer supported">>, calls)
        ELSE IF is_superrun
        THEN Return(SubrunPlaceholder(o.default_by_run.table), calls)
        ELSE LET rid == IF rid0.t = "str" THEN IntOfDigits(stripped, 0) ELSE rid0.n
                 use_value == UseValue(o.default_by_run.table, rid, Omitted)
             IN  IF use_value = Omitted
                 THEN Raise("ValueError", <<"run id smaller than lowest">>, calls)
                 ELSE Return(use_value, calls)

\* Option.get_default(run_id, run_defaults), with the default_factory having
\* been invoked `calls` times before
get_default(o, run_id, run_defaults, calls) ==
    IF ~run_defaults.isNone /\ o.name \in DOMAIN run_defaults.map
    THEN Return(run_defaults.map[o.name], calls)
    ELSE IF o.default # Omitted THEN Return(o.default, calls)
    ELSE IF o.default_factory # Omitted THEN Return(FactoryOutput(calls), calls + 1)
    ELSE IF o.default_by_run.kind # "omitted" THEN LegacyDefault(o, run_id, calls)
    ELSE IF o.taken_by = Unset
    THEN Raise("AttributeError", <<"taken_by">>, calls)
    ELSE Raise("InvalidConfiguration", <<o.name, o.taken_by>>, calls)

----------------------------------------------------------------------------
(* Option.validate and Config.fetch *)

\* Faulty variant of validate: a value of the wrong type is rejected
validate_TypeRaises(o, cfg, run_id, run_defaults, set_defaults, calls) ==
    IF o.name \in DOMAIN cfg
    THEN IF o.type # Omitted /\ ~IsInstance(cfg[o.name], o.type)
         THEN [out |-> Raise("InvalidConfiguration", <<o.name>>, calls), cfg |-> cfg]
         ELSE [out |-> Return(PyNone, calls), cfg |-> cfg]
    ELSE IF set_defaults
    THEN LET d == get_default(o, run_id, run_defaults, calls)
         IN  IF d.kind = "return"
             THEN [out |-> Return(PyNone, d.calls), cfg |-> Put(cfg, o.name, d.value)]
             ELSE [out |-> d, cfg |-> cfg]
    ELSE [out |-> Return(PyNone, calls), cfg |-> cfg]

\* validate(config, run_id, run_defaults, set_defaults): the outcome and the
\* mapping afterwards
validate(o, cfg, run_id, run_defaults, set_defaults, calls) ==
    IF o.name \in DOMAIN cfg
    THEN \* the type check only constructs a UserWarning
         [out |-> Return(PyNone, calls), cfg |-> cfg]
    ELSE IF set_defaults
    THEN LET d == get_default(o, run_id, run_defaults, calls)
         IN  IF d.kind = "return"
             THEN [out |-> Return(PyNone, d.calls), cfg |-> Put(cfg, o.name, d.value)]
             ELSE [out |-> d, cfg |-> cfg]
    ELSE [out |-> Return(PyNone, calls), cfg |-> cfg]

\* Faulty variant of fetch: the default is preferred to the configured value
fetch_DefaultFirst(o, plugin_config, plugin_run_id, calls) ==
    IF ~plugin_config.has
    THEN Raise("AttributeError", <<"Plugin has not been configured.">>, calls)
    ELSE LET d == get_default(o, plugin_run_id, NoneDict, calls)
         IN  IF d.kind = "return" THEN d
             ELSE IF o.name \in DOMAIN plugin_config.map
             THEN Return(plugin_config.map[o.name], calls)
             ELSE d

\* Config.fetch(plugin)
fetch(o, plugin_config, plugin_run_id, calls) ==
    IF ~plugin_config.has
    THEN Raise("AttributeError", <<"Plugin has not been configured.">>, calls)
    ELSE IF o.name \in DOMAIN plugin_config.map
    THEN Return(plugin_config.map[o.name], calls)
    ELSE get_default(o, plugin_run_id, NoneDict, calls)

----------------------------------------------------------------------------
(* The inputs of the option model *)

\* Plugin classes that declare the option
PluginClasses == {"Peaks"}

Klasses == {"Option", "Config"}

Types == {Omitted, "int"}

Defaults == {Omitted, "i0", "s0"}

Factories == {Omitted, "<factory>"}

ByRuns == {ByRunOmitted, ByRunCallable} \cup {ByRunTable(t) : t \in Tables}

\* An Option takes its name as an argument; a Config without a name argument
\* starts with the empty name (Config.__init__)
InitNames(klass) == IF klass = "Config" THEN {""} ELSE {"a"}

\* Constructor arguments: all combinations of the default strategies and of
\* child_option / parent_option_name
InitArgsAll ==
    [klass : Klasses, type : Types, default : Defaults, default_factory : Factories,
     default_by_run : {ByRunOmitted, ByRunCallable,
                       ByRunTable(<<Pair(0, "i0"), Pair(2, "i1")>>)},
     child_option : BOOLEAN, parent_option_name : {PyNone, "a"}]

\* Constructor arguments for the study of default resolution
InitArgsDefault ==
    [klass : Klasses, type : {Omitted}, default : Defaults,
     default_factory : Factories, default_by_run : ByRuns,
     child_option : {FALSE}, parent_option_name : {PyNone}]

\* Constructor arguments for the study of validate and fetch
InitArgsValidate ==
    [klass : Klasses, type : Types, default : Defaults, default_factory : Factories,
     default_by_run : {ByRunOmitted, ByRunTable(<<Pair(0, "i0"), Pair(2, "i1")>>)},
     child_option : {FALSE}, parent_option_name : {PyNone}]

RunIds ==
    {NoneRun, IntRun(-1), IntRun(0), IntRun(1), IntRun(2), IntRun(3),
     StrRun(<<"2">>), StrRun(<<"0", "_", "1">>), StrRun(<<"1", "0">>),
     StrRun(<<"_", "2">>), StrRun(<<"x">>)}

RunIdsFew == {NoneRun, IntRun(-1), IntRun(2), StrRun(<<"_", "2">>)}

RunDefaults ==
    {NoneDict, SomeDict(EmptyDict), SomeDict([a |-> "i1"]), SomeDict([b |-> "i1"])}

RunDefaultsFew == {NoneDict, SomeDict([a |-> "i1"]), SomeDict([b |-> "i1"])}

\* The plugin before it is configured, and configured with a mapping
NoConfig == [has |-> FALSE, map |-> EmptyDict]

PluginConfigs ==
    {NoConfig} \cup
    {[has |-> TRUE, map |-> m] :
        m \in {EmptyDict, [a |-> "s0"], [b |-> "i0"], [a |-> "i0", b |-> "s0"]}}

Idle == [op |-> "idle"]

\* strax.testutils is not being imported
NotLoading == [at |-> "none", exc |-> "", name |-> ""]

----------------------------------------------------------------------------
(* Actions of the option model *)

InitOpt ==
    /\ option = NoOption
    /\ config \in PluginConfigs
    /\ factoryCalls = 0
    /\ ret = Idle
    /\ heap = << >>
    /\ registry = [c \in {"Plugin", "Parent", "Child"} |-> [has |-> FALSE, map |-> EmptyDict]]
    /\ installed = [c \in {"Plugin", "Parent", "Child"} |-> EmptyDict]
    /\ loading = NotLoading

\* Option(name, type, default, default_factory, default_by_run, child_option,
\*        parent_option_name) and Config(**kwargs), the arguments drawn from Args
OptionInit(Args) ==
    /\ option.st = "none"
    /\ \E a \in Args :
       \E name \in InitNames(a.klass) :
         LET err == InitError(a.default, a.default_factory, a.default_by_run,
                              a.child_option, a.parent_option_name)
             args == [a EXCEPT !.klass = <<a.klass, name>>]
         IN  IF err = ""
             THEN /\ option' = NewOption(a.klass, name, a.type, a.default,
                                         a.default_factory, a.default_by_run,
                                         a.child_option, a.parent_option_name)
                  /\ ret' = [op |-> "init", args |-> args, out |-> Return(PyNone, 0)]
             ELSE /\ option' = option
                  /\ ret' = [op |-> "init", args |-> args,
                             out |-> Raise(err, <<name>>, 0)]
    /\ UNCHANGED <<config, factoryCalls, regVars>>

\* opt.taken_by = plugin_class.__name__ (takes_config, line 34), for the
\* decoration of a plugin class that declares this one option
StampTakenBy ==
    /\ option.st = "option"
    /\ \E cls \in PluginClasses :
         /\ option' = [option EXCEPT !.taken_by = cls]
         /\ ret' = [op |-> "takes_config", cls |-> cls]
    /\ UNCHANGED <<config, factoryCalls, regVars>>

\* Config.__set_name__(owner, name): the attribute name becomes the option's
\* name, the owner its taken_by (lines 233-234)
BindName ==
    /\ option.st = "option"
    /\ option.klass = "Config"
    /\ \E cls \in PluginClasses, name \in {"a"} :
         /\ option' = [option EXCEPT !.name = name, !.taken_by = cls]
         /\ ret' = [op |-> "set_name", cls |-> cls, name |-> name]
    /\ UNCHANGED <<config, factoryCalls, regVars>>

GetDefaultCall(Runs, RDs) ==
    /\ option.st = "option"
    /\ factoryCalls < MaxFactoryCalls
    /\ \E run_id \in Runs, run_defaults \in RDs :
         LET out == get_default(option, run_id, run_defaults, factoryCalls)
         IN  /\ ret' = [op |-> "get_default", run_id |-> run_id,
                        run_defaults |-> run_defaults,
                        callsBefore |-> factoryCalls, out |-> out]
             /\ factoryCalls' = out.calls
    /\ UNCHANGED <<option, config, regVars>>

ValidateCall(Runs, RDs) ==
    /\ option.st = "option"
    /\ config.has
    /\ factoryCalls < MaxFactoryCalls
    /\ \E run_id \in Runs, run_defaults \in RDs, set_defaults \in BOOLEAN :
         LET v == validate(option, config.map, run_id, run_defaults, set_defaults,
                           factoryCalls)
         IN  /\ ret' = [op |-> "validate", run_id |-> run_id,
                        run_defaults |-> run_defaults, set_defaults |-> set_defaults,
                        cfgBefore |-> config.map, callsBefore |-> factoryCalls,
                        out |-> v.out]
             /\ config' = [config EXCEPT !.map = v.cfg]
             /\ factoryCalls' = v.out.calls
    /\ UNCHANGED <<option, regVars>>

\* Reading the attribute from a plugin instance: Config.__get__ -> fetch
FetchCall(Runs) ==
    /\ option.st = "option"
    /\ option.klass = "Config"
    /\ factoryCalls < MaxFactoryCalls
    /\ \E plugin_run_id \in Runs :
         LET out == fetch(option, config, plugin_run_id, factoryCalls)
         IN  /\ ret' = [op |-> "fetch", run_id |-> plugin_run_id,
                        cfgBefore |-> config, callsBefore |-> factoryCalls,
                        out |-> out]
             /\ factoryCalls' = out.calls
    /\ UNCHANGED <<option, config, regVars>>

----------------------------------------------------------------------------
(* Option registration: takes_config and Config.__set_name__ *)

\* The plugin classes: Child(Parent), Parent(Plugin)
Classes == {"Plugin", "Parent", "Child"}

Base(cls) == IF cls = "Child" THEN "Parent" ELSE "Plugin"

NoRegistry == [has |-> FALSE, map |-> EmptyDict]

Registry(m) == [has |-> TRUE, map |-> m]

\* plugin_class.takes_config as attribute lookup finds it: the class's own
\* attribute, else the nearest base's; has = FALSE when hasattr is false
RECURSIVE Lookup(_, _)
Lookup(reg, cls) ==
    IF reg[cls].has THEN reg[cls]
    ELSE IF cls = "Plugin" THEN NoRegistry
    ELSE Lookup(reg, Base(cls))

\* Sequences of at most n elements of S
SeqsUpTo(S, n) == UNION {[1..k -> S] : k \in 0..n}

\* The loop of takes_config over its options (lines 30-35): every option is
\* stamped with the class name ...
RECURSIVE StampAll(_, _, _)
StampAll(h, ids, cls) ==
    IF ids = << >> THEN h
    ELSE StampAll([h EXCEPT ![Head(ids)].taken_by = cls], Tail(ids), cls)

\* ... and entered in result under its name, a later option replacing an
\* earlier one of the same name
RECURSIVE ResultOf(_, _, _)
ResultOf(h, ids, result) ==
    IF ids = << >> THEN result
    ELSE ResultOf(h, Tail(ids), Put(result, h[Head(ids)].name, Head(ids)))

\* Faulty variant of Merge: the collision with the registry already carried is not
\* checked, the new entries override
Merge_NoCollisionCheck(cur, new) ==
    IF cur.has /\ DOMAIN cur.map # {}
    THEN Registry(Update(cur.map, new))
    ELSE Registry(new)

\* Lines 39-47 of takes_config and 236-244 of __set_name__: the registry the
\* class gets, or has = FALSE when the step raises "Attempt to specify option
\* ... twice"
Merge(cur, new) ==
    IF cur.has /\ DOMAIN cur.map # {}
    THEN IF \E n \in DOMAIN new : n \in DOMAIN cur.map
         THEN NoRegistry
         ELSE Registry(Update(cur.map, new))
    ELSE Registry(new)

\* The class whose takes_config attribute a registration step assigns
AssignTarget(cls) == cls

\* The option the Parent class declares, already stamped by its decorator
ParentOption ==
    [NewOption("Option", "b", Omitted, Omitted, Omitted, ByRunOmitted, FALSE, PyNone)
        EXCEPT !.taken_by = "Parent"]

\* The classes as defined before Child declares its options: Plugin with no
\* takes_config attribute or an empty one, Parent undecorated or decorated
\* with takes_config(Option("b"))
InitReg ==
    \E root \in {NoRegistry, Registry(EmptyDict)}, decorated \in BOOLEAN :
      /\ decorated => root.has
      /\ heap = IF decorated THEN <<ParentOption>> ELSE << >>
      /\ registry = [c \in Classes |->
                        IF c = "Plugin" THEN root
                        ELSE IF c = "Parent" /\ decorated THEN Registry([b |-> 1])
                        ELSE NoRegistry]
      /\ installed = [c \in Classes |-> EmptyDict]
      /\ loading = NotLoading

\* The options written in a declaration: Option(name) or Config(name=name)
Declared == [klass : Klasses, name : Names]

\* The objects these constructor calls create, appended to the heap
RECURSIVE Construct(_, _)
Construct(h, decls) ==
    IF decls = << >> THEN h
    ELSE Construct(Append(h, NewOption(Head(decls).klass, Head(decls).name, Omitted,
                                       Omitted, Omitted, ByRunOmitted, FALSE, PyNone)),
                   Tail(decls))

\* What a registration step records: the class, the identities and names of
\* the options declared, the registries before the step and the outcome
StepRecord(op, cls, ids, names, out) ==
    [op |-> op, cls |-> cls, ids |-> ids, names |-> names, before |-> registry,
     out |-> out]

\* @takes_config(Option(...), ...) applied to plugin class cls
TakesConfig(cls) ==
    \E decls \in SeqsUpTo(Declared, MaxCallOptions) :
      /\ Len(heap) + Len(decls) <= MaxOptions
      /\ LET ids == [i \in 1..Len(decls) |-> Len(heap) + i]
             names == [i \in 1..Len(decls) |-> decls[i].name]
             stamped == StampAll(Construct(heap, decls), ids, cls)
             result == ResultOf(stamped, ids, EmptyDict)
             merged == Merge(Lookup(registry, cls), result)
             last == ids[Len(ids)]
         IN  /\ heap' = stamped
             /\ IF ~merged.has
                THEN /\ UNCHANGED <<registry, installed>>
                     /\ ret' = StepRecord("takes_config", cls, ids, names,
                                  Raise("RuntimeError", <<"specify option twice">>, 0))
                ELSE /\ registry' = [registry EXCEPT ![AssignTarget(cls)] = merged]
                     /\ IF ids = << >>
                        THEN \* isinstance(opt, ...) reads opt, which no loop has bound
                             /\ UNCHANGED installed
                             /\ ret' = StepRecord("takes_config", cls, ids, names,
                                          Raise("UnboundLocalError", <<"opt">>, 0))
                        ELSE /\ installed' =
                                  IF stamped[last].klass = "Config"
                                  THEN [installed EXCEPT
                                          ![cls] = Put(@, stamped[last].name, last)]
                                  ELSE installed
                             /\ ret' = StepRecord("takes_config", cls, ids, names,
                                          Return(cls, 0))
      /\ UNCHANGED <<optVars, loading>>

\* `name = Config()` in the body of class owner: the class gets the attribute
\* and type.__new__ calls Config.__set_name__(owner, name)
SetName(owner) ==
    \E name \in Names :
      /\ Len(heap) < MaxOptions
      /\ LET id == Len(heap) + 1
             created == Append(heap, NewOption("Config", "", Omitted, Omitted, Omitted,
                                               ByRunOmitted, FALSE, PyNone))
             bound == [created EXCEPT ![id].name = name, ![id].taken_by = owner]
             new_takes_config == Put(EmptyDict, name, id)
             merged == Merge(Lookup(registry, owner), new_takes_config)
         IN  /\ heap' = bound
             /\ IF ~merged.has
                THEN /\ UNCHANGED <<registry, installed>>
                     /\ ret' = StepRecord("set_name", owner, <<id>>, <<name>>,
                                  Raise("RuntimeError", <<"specify option twice">>, 0))
                ELSE /\ registry' = [registry EXCEPT ![AssignTarget(owner)] = merged]
                     /\ installed' = [installed EXCEPT ![owner] = Put(@, name, id)]
                     /\ ret' = StepRecord("set_name", owner, <<id>>, <<name>>,
                                  Return(PyNone, 0))
      /\ UNCHANGED <<optVars, loading>>

\* The declarations of class Child(Parent)
NextRegistry ==
    \/ TakesConfig("Child")
    \/ SetName("Child")

Init == InitOpt

\* Default resolution: construction, declaration on a plugin, get_default
Next ==
    \/ OptionInit(InitArgsDefault)
    \/ StampTakenBy
    \/ BindName
    \/ GetDefaultCall(RunIds, RunDefaults)

Spec == Init /\ [][Next]_vars

\* Construction alone, over every combination of its arguments
NextInit == OptionInit(InitArgsAll)

SpecInit == Init /\ [][NextInit]_vars

\* validate and the attribute read, on a configured or unconfigured plugin
NextValidate ==
    \/ OptionInit(InitArgsValidate)
    \/ StampTakenBy
    \/ BindName
    \/ ValidateCall(RunIdsFew, RunDefaultsFew)
    \/ FetchCall(RunIdsFew)

SpecValidate == Init /\ [][NextValidate]_vars

\* Registration of options on the classes Parent and Child(Parent)
InitRegistry ==
    /\ InitReg
    /\ option = NoOption
    /\ config = NoConfig
    /\ factoryCalls = 0
    /\ ret = Idle

SpecRegistry == InitRegistry /\ [][NextRegistry]_vars

----------------------------------------------------------------------------
(* combine_configs *)

Modes == {"update", "setdefault", "replace", "merge"}

ConfigDicts == Dicts(Names, {"i0", "i1"})

\* Faulty variant of combine_configs: setdefault overlays new on old like update
combine_configs_NoSwap(old_config, new_config, mode) ==
    LET new == IF new_config.isNone THEN SomeDict(EmptyDict) ELSE new_config
    IN  IF mode \in {"update", "setdefault"}
        THEN Return(Update(old_config.map, new.map), 0)
        ELSE IF mode = "replace" THEN Return(new.map, 0)
        ELSE Raise("RuntimeError", <<"Expected update, setdefault or replace">>, 0)

\* combine_configs(old_config, new_config=None, mode="update")
RECURSIVE combine_configs(_, _, _)
combine_configs(old_config, new_config, mode) ==
    LET new == IF new_config.isNone THEN SomeDict(EmptyDict) ELSE new_config
    IN  IF mode = "update"
        THEN Return(Update(old_config.map, new.map), 0)
        ELSE IF mode = "setdefault"
        THEN combine_configs(new, old_config, "update")
        ELSE IF mode = "replace" THEN Return(new.map, 0)
        ELSE Raise("RuntimeError", <<"Expected update, setdefault or replace">>, 0)

\* The arguments of a call about to be made
CombineArgs ==
    [op : {"call"}, old : ConfigDicts, mode : Modes,
     new : {NoneDict} \cup {SomeDict(m) : m \in ConfigDicts}]

CombineCall ==
    /\ ret.op = "call"
    /\ ret' = [op |-> "combine_configs", old |-> ret.old, new |-> ret.new,
               mode |-> ret.mode,
               out |-> combine_configs(SomeDict(ret.old), ret.new, ret.mode)]
    /\ UNCHANGED <<optVars, regVars>>

\* No option, no plugin configuration, no class declarations
NothingDeclared ==
    /\ option = NoOption
    /\ config = NoConfig
    /\ factoryCalls = 0
    /\ heap = << >>
    /\ registry = [c \in Classes |-> NoRegistry]
    /\ installed = [c \in Classes |-> EmptyDict]
    /\ loading = NotLoading

InitCombine == NothingDeclared /\ ret \in CombineArgs

SpecCombine == InitCombine /\ [][CombineCall]_vars

----------------------------------------------------------------------------
(* testutils.sorted_bounds *)

\* max_value and max_len of sorted_bounds and the max_size of the raw list,
\* scaled down (the code's defaults are 50, 10 and 20)
MaxValue == 4

MaxLen == 2

MaxSize == 4

\* accumulate(x): the running sums
RECURSIVE Accumulate(_, _)
Accumulate(x, total) ==
    IF x = << >> THEN << >>
    ELSE <<total + Head(x)>> \o Accumulate(Tail(x), total + Head(x))

\* Bounds are 2-tuples, compared like Python tuples
TupleLess(p, q) == p[1] < q[1] \/ (p[1] = q[1] /\ p[2] < q[2])

RECURSIVE InsertInt(_, _)
InsertInt(x, q) ==
    IF q = << >> THEN <<x>>
    ELSE IF x < Head(q) THEN <<x>> \o q
    ELSE <<Head(q)>> \o InsertInt(x, Tail(q))

\* sorted(x) of a list of integers
RECURSIVE SortedInts(_)
SortedInts(q) ==
    IF q = << >> THEN << >>
    ELSE InsertInt(Head(q), SortedInts(Tail(q)))

RECURSIVE InsertTuple(_, _)
InsertTuple(x, q) ==
    IF q = << >> THEN <<x>>
    ELSE IF TupleLess(x, Head(q)) THEN <<x>> \o q
    ELSE <<Head(q)>> \o InsertTuple(x, Tail(q))

\* sorted(x) of a list of 2-tuples
RECURSIVE SortedTuples(_)
SortedTuples(q) ==
    IF q = << >> THEN << >>
    ELSE InsertTuple(Head(q), SortedTuples(Tail(q)))

\* [tuple(q) for q in iterutils.chunked(x, size=2)], x of even length
Chunked(x) == [i \in 1..(Len(x) \div 2) |-> <<x[2 * i - 1], x[2 * i]>>]

\* Faulty variant of NoZeroLength: zero-length intervals are not filtered out
NoZeroLength_KeepsAll(bs) == TRUE

\* all([a[0] != a[1] for a in x])
NoZeroLength(bs) == \A i \in 1..Len(bs) : bs[i][1] # bs[i][2]

HasDuplicates(bs) == \E i, j \in 1..Len(bs) : i < j /\ bs[i] = bs[j]

\* The largest integer the raw list draws: max_value, divided by max_len
\* when disjoint (max_value /= max_len; the quotient of the code's defaults,
\* 50 / 10, is whole, and an integer draw is at most the quotient's floor)
ElementMax(disjoint) == IF disjoint THEN MaxValue \div MaxLen ELSE MaxValue

\* The chain of map and filter steps of sorted_bounds applied to one raw
\* list: whether the example passes every filter, and the bounds it yields.
\* setOrderKept is whether list(set(x)) iterates in the order of x.
SortedBoundsExample(raw, disjoint, remove_duplicates, setOrderKept) ==
    LET x == IF disjoint THEN Accumulate(raw, 0) ELSE raw
        pairs == Chunked(SortedInts(x))
    IN  IF Len(x) % 2 # 0 THEN [kept |-> FALSE, bounds |-> << >>]
        ELSE IF ~NoZeroLength(pairs) THEN [kept |-> FALSE, bounds |-> << >>]
        ELSE IF remove_duplicates /\ (HasDuplicates(pairs) \/ ~setOrderKept)
        THEN [kept |-> FALSE, bounds |-> << >>]
        ELSE [kept |-> TRUE, bounds |-> SortedTuples(pairs)]

\* The strategy sorted_bounds(disjoint, max_value, max_len, remove_duplicates)
\* returns, before an example is drawn from it
BoundsStrategies ==
    [op : {"strategy"}, disjoint : BOOLEAN, remove_duplicates : BOOLEAN]

\* One example drawn from the strategy
DrawBounds ==
    /\ ret.op = "strategy"
    /\ \E raw \in SeqsUpTo(0..ElementMax(ret.disjoint), MaxSize) :
       \E setOrderKept \in (IF ret.remove_duplicates /\ Len(raw) > 2
                            THEN BOOLEAN ELSE {TRUE}) :
         LET e == SortedBoundsExample(raw, ret.disjoint, ret.remove_duplicates,
                                      setOrderKept)
         IN  ret' = [op |-> "sorted_bounds", disjoint |-> ret.disjoint,
                     remove_duplicates |-> ret.remove_duplicates, raw |-> raw,
                     kept |-> e.kept, bounds |-> e.bounds]
    /\ UNCHANGED <<optVars, regVars>>

InitBounds == NothingDeclared /\ ret \in BoundsStrategies

SpecBounds == InitBounds /\ [][DrawBounds]_vars

----------------------------------------------------------------------------
(* testutils.bounds_to_records *)

\* Bounds given to bounds_to_records: at most MaxBounds, ending at MaxEnd
MaxBounds == 2

MaxEnd == 4

ValidBounds == {<<l, r>> : l \in 0..MaxEnd, r \in 0..MaxEnd} \cap
               {b \in (0..MaxEnd) \X (0..MaxEnd) : b[1] < b[2]}

\* n_samples: the largest endpoint, plus one if it is odd
NSamples(bs) ==
    IF Len(bs) = 0 THEN 0
    ELSE LET m == SetMax({bs[i][1] : i \in 1..Len(bs)} \cup {bs[i][2] : i \in 1..Len(bs)})
         IN  IF m % 2 # 0 THEN m + 1 ELSE m

\* Faulty variant of Pad: the whole slack is put before the pulse
Pad_NotHalved(n_samples, l, r) == n_samples - (r - l)

\* pad = (n_samples - (r - l)) // 2
Pad(n_samples, l, r) == (n_samples - (r - l)) \div 2

\* data[lo:hi] = 1 on a buffer of n zero samples (0 <= lo): the slice is
\* clipped to the buffer; sample j of Python is element j + 1 here
SliceSet(data, lo, hi) ==
    [j \in 1..Len(data) |-> IF lo <= j - 1 /\ j - 1 < hi THEN 1 ELSE data[j]]

Zeros(n) == [j \in 1..n |-> 0]

RECURSIVE SumSeq(_)
SumSeq(q) == IF q = << >> THEN 0 ELSE Head(q) + SumSeq(Tail(q))

\* Record i (from 0) of the default mode, before dt is set
PulseRecord(bs, i, single_channel) ==
    LET n_samples == NSamples(bs)
        l == bs[i + 1][1]
        r == bs[i + 1][2]
        length == r - l
        pad == Pad(n_samples, l, r)
    IN  [time |-> l, length |-> pad + length, dt |-> 0,
         channel |-> IF single_channel THEN 0 ELSE i,
         data |-> SliceSet(Zeros(n_samples), pad, pad + length)]

\* The single record of single mode: every bound set to 1 in one buffer
RECURSIVE SingleData(_, _)
SingleData(bs, data) ==
    IF bs = << >> THEN data
    ELSE SingleData(Tail(bs), SliceSet(data, Head(bs)[1], Head(bs)[2]))

\* recs['dt'] = 1
SetDt(recs) == [i \in 1..Len(recs) |-> [recs[i] EXCEPT !.dt = 1]]

\* bounds_to_records(bs, single, single_channel): the records, or the
\* AssertionError of one of its two assertions
bounds_to_records(bs, single, single_channel) ==
    IF ~single
    THEN LET recs == [i \in 1..Len(bs) |-> PulseRecord(bs, i - 1, single_channel)]
         IN  IF \E i \in 1..Len(bs) : SumSeq(recs[i].data) # bs[i][2] - bs[i][1]
             THEN Raise("AssertionError", <<"data.sum() == length">>, 0)
             ELSE IF /\ ~single_channel
                     /\ Cardinality({recs[i].channel : i \in 1..Len(recs)}) # Len(bs)
             THEN Raise("AssertionError", <<"unique channels">>, 0)
             ELSE Return(SetDt(recs), 0)
    ELSE Return(SetDt(<<[time |-> 0, length |-> NSamples(bs), dt |-> 0, channel |-> 0,
                         data |-> SingleData(bs, Zeros(NSamples(bs)))]>>), 0)

\* The arguments of a call about to be made
RecordsArgs ==
    [op : {"call"}, bs : SeqsUpTo(ValidBounds, MaxBounds), single : BOOLEAN,
     single_channel : BOOLEAN]

RecordsCall ==
    /\ ret.op = "call"
    /\ ret' = [op |-> "bounds_to_records", bs |-> ret.bs, single |-> ret.single,
               single_channel |-> ret.single_channel,
               out |-> bounds_to_records(ret.bs, ret.single, ret.single_channel)]
    /\ UNCHANGED <<optVars, regVars>>

InitRecords == NothingDeclared /\ ret \in RecordsArgs

SpecRecords == InitRecords /\ [][RecordsCall]_vars

----------------------------------------------------------------------------
(* The fixtures ParentPlugin and ChildPlugin of testutils *)

\* An Option(...) written in a decorator of the fixtures
Decl(name, type, default, child_option, parent_option_name) ==
    [klass |-> "Option", name |-> name, type |-> type, default |-> default,
     default_factory |-> Omitted, default_by_run |-> ByRunOmitted,
     child_option |-> child_option, parent_option_name |-> parent_option_name]

\* @strax.takes_config(...) of ParentPlugin
ParentDecls ==
    <<Decl("by_child_overwrite_option", Omitted, "2", FALSE, PyNone),
      Decl("parent_unique_option", "int", "10", FALSE, PyNone),
      Decl("context_option", "int", Omitted, FALSE, PyNone),
      Decl("more_special_context_option", "immutabledict", Omitted, FALSE, PyNone)>>

\* @strax.takes_config(...) of ChildPlugin: no Option passes parent_option_name
ChildDecls ==
    <<Decl("by_child_overwrite_option_child", Omitted, "4", TRUE, PyNone),
      Decl("context_option_child", "int", "10", TRUE, PyNone),
      Decl("child_exclusive_option", "int", "6", FALSE, PyNone),
      Decl("2nd_child_exclusive_option_child", Omitted, "2", FALSE, PyNone),
      Decl("more_special_context_option_child", "immutabledict",
           "immutabledict(tpc=(4, 10))", TRUE, PyNone)>>

FixtureDecls(cls) == IF cls = "Parent" THEN ParentDecls ELSE ChildDecls

\* The options of earlier decorators on the heap when cls is decorated
HeapBefore(cls) == IF cls = "Parent" THEN 0 ELSE Len(ParentDecls)

\* The import of the module: at the decorator of a class, finished, or ended
\* by the exception exc raised for the option name
LoadingAt(cls) == [at |-> cls, exc |-> "", name |-> ""]

\* The arguments of a decorator are evaluated in order before it is called:
\* the next Option(...) is constructed, and an exception of its __init__ ends
\* the import
FixtureOption ==
    /\ loading.at \in {"Parent", "Child"}
    /\ Len(heap) - HeapBefore(loading.at) < Len(FixtureDecls(loading.at))
    /\ LET d == FixtureDecls(loading.at)[Len(heap) - HeapBefore(loading.at) + 1]
           err == InitError(d.default, d.default_factory, d.default_by_run,
                            d.child_option, d.parent_option_name)
       IN  IF err # ""
           THEN /\ loading' = [at |-> "failed", exc |-> err, name |-> d.name]
                /\ UNCHANGED heap
           ELSE /\ heap' = Append(heap, NewOption(d.klass, d.name, d.type, d.default,
                                                  d.default_factory, d.default_by_run,
                                                  d.child_option, d.parent_option_name))
                /\ UNCHANGED loading
    /\ UNCHANGED <<optVars, ret, registry, installed>>

\* With every argument constructed, takes_config(...) decorates the class
FixtureDecorate ==
    /\ loading.at \in {"Parent", "Child"}
    /\ Len(heap) - HeapBefore(loading.at) = Len(FixtureDecls(loading.at))
    /\ LET cls == loading.at
           ids == [i \in 1..Len(FixtureDecls(cls)) |-> HeapBefore(cls) + i]
           stamped == StampAll(heap, ids, cls)
           result == ResultOf(stamped, ids, EmptyDict)
           merged == Merge(Lookup(registry, cls), result)
       IN  /\ heap' = stamped
           /\ IF ~merged.has
              THEN /\ UNCHANGED registry
                   /\ loading' = [at |-> "failed", exc |-> "RuntimeError",
                                  name |-> "specify option twice"]
              ELSE /\ registry' = [registry EXCEPT ![AssignTarget(cls)] = merged]
                   /\ loading' = LoadingAt(IF cls = "Parent" THEN "Child" ELSE "done")
    /\ UNCHANGED <<optVars, ret, installed>>

\* The import begins at the decorator of ParentPlugin; strax.Plugin has no
\* takes_config attribute or an empty one
InitFixture ==
    /\ option = NoOption
    /\ config = NoConfig
    /\ factoryCalls = 0
    /\ ret = Idle
    /\ heap = << >>
    /\ \E root \in {NoRegistry, Registry(EmptyDict)} :
         registry = [c \in Classes |-> IF c = "Plugin" THEN root ELSE NoRegistry]
    /\ installed = [c \in Classes |-> EmptyDict]
    /\ loading = LoadingAt("Parent")

\* The import of the fixtures, while options are constructed elsewhere
NextFixture ==
    \/ FixtureOption
    \/ FixtureDecorate
    \/ OptionInit(InitArgsAll)

SpecFixture == InitFixture /\ [][NextFixture]_vars

----------------------------------------------------------------------------
(* Claims on Option.get_default *)

\* The name is supplied by the run-specific defaults mapping
InRunDefaults(o, run_defaults) ==
    ~run_defaults.isNone /\ o.name \in DOMAIN run_defaults.map

\* C1: get_default resolves in strict priority order: (1) the run_defaults
\* value if run_defaults is given and holds the option's name, (2) else the
\* static default, (3) else a fresh call of default_factory, (4) else the
\* legacy default_by_run resolution, (5) else it raises InvalidConfiguration
\* naming the option and the plugin in taken_by -- for every Option.
C1_PriorityOrder ==
    ret.op = "get_default" =>
        LET o == option
            before == ret.callsBefore
        IN  IF InRunDefaults(o, ret.run_defaults)
            THEN ret.out = Return(ret.run_defaults.map[o.name], before)
            ELSE IF o.default # Omitted
            THEN ret.out = Return(o.default, before)
            ELSE IF o.default_factory # Omitted
            THEN ret.out = Return(FactoryOutput(before), before + 1)
            ELSE IF o.default_by_run.kind # "omitted"
            THEN ret.out = LegacyDefault(o, ret.run_id, before)
            ELSE /\ ret.out.kind = "raise"
                 /\ ret.out.exc = "InvalidConfiguration"
                 /\ ret.out.about = <<o.name, o.taken_by>>

\* The priority order of C1 for options a plugin class has declared (taken_by
\* is set): the part of C1 that the code satisfies
PriorityOrderOnceDeclared ==
    (ret.op = "get_default" /\ option.taken_by # Unset) => C1_PriorityOrder

\* The default_by_run list is in ascending first_run_id order
Ascending(table) ==
    \A i \in 1..(Len(table) - 1) : table[i].start <= table[i + 1].start

\* An ordinary run id: absent, an integer, or a text that is no super-run
\* and reads as an integer once its underscores are removed
OrdinaryRun(run_id) ==
    \/ run_id.t \in {"none", "int"}
    \/ /\ run_id.t = "str"
       /\ ~IsSuperrun(run_id)
       /\ IntParses(StripUnderscores(run_id.s))

\* The number of an ordinary run id, an absent one counting as 0
RunNumber(run_id) ==
    CASE run_id.t = "none" -> 0
      [] run_id.t = "int" -> run_id.n
      [] OTHER -> IntOfDigits(StripUnderscores(run_id.s), 0)

\* The call the claim C2 is about: get_default on an option whose only
\* default is an ascending default_by_run list, for an ordinary run id, with
\* no run-specific default supplied for the option
ByRunCall ==
    /\ ret.op = "get_default"
    /\ option.default = Omitted
    /\ option.default_factory = Omitted
    /\ option.default_by_run.kind = "table"
    /\ Ascending(option.default_by_run.table)
    /\ OrdinaryRun(ret.run_id)
    /\ ~InRunDefaults(option, ret.run_defaults)

\* C2: for an option whose only default is an ascending default_by_run list
\* and every ordinary run id r (absent counting as 0), get_default returns the
\* value of the last pair whose first_run_id is <= r, and raises ValueError
\* exactly when no pair has first_run_id <= r.
C2_LastPairAtOrBelow ==
    ByRunCall =>
        LET table == option.default_by_run.table
            r == RunNumber(ret.run_id)
            below == {i \in 1..Len(table) : table[i].start <= r}
        IN  IF below = {}
            THEN ret.out.kind = "raise" /\ ret.out.exc = "ValueError"
            ELSE ret.out.kind = "return" /\ ret.out.value = table[SetMax(below)].value

\* C2 witness: the list [(0, i0), (1, s0), (3, i1)] resolved at run 2 gives
\* s0, the value of the middle pair
C2_Witness ==
    /\ ByRunCall
    /\ Len(option.default_by_run.table) = 3
    /\ ret.run_id = IntRun(2)
    /\ ret.out.kind = "return"
    /\ ret.out.value = "s0"

----------------------------------------------------------------------------
(* Claims on Option.__init__ *)

\* The default strategies among the arguments of a constructor call
SuppliedDefaults(a) ==
    {k \in {"default", "default_factory", "default_by_run"} :
        CASE k = "default" -> a.default # Omitted
          [] k = "default_factory" -> a.default_factory # Omitted
          [] OTHER -> a.default_by_run.kind # "omitted"}

\* C3: constructing an Option fails with an authoring error if and only if
\* more than one of default, default_factory, default_by_run is supplied, or
\* exactly one of child_option / parent_option_name is supplied without the
\* other; for every other combination construction succeeds.
C3_InitFailsIff ==
    ret.op = "init" =>
        LET a == ret.args
            oneWithoutOther == a.child_option # (a.parent_option_name # PyNone)
            mustFail == Cardinality(SuppliedDefaults(a)) > 1 \/ oneWithoutOther
        IN  /\ mustFail => /\ ret.out.kind = "raise"
                           /\ ret.out.exc \in {"ValueError", "RuntimeError"}
                           /\ option.st = "none"
            /\ ~mustFail => /\ ret.out.kind = "return"
                            /\ option.st = "option"
                            /\ option.default = a.default
                            /\ option.default_factory = a.default_factory
                            /\ option.default_by_run = a.default_by_run

\* C3 witness: a parent_option_name without child_option makes the
\* construction fail although only one default is supplied
C3_Witness ==
    /\ ret.op = "init"
    /\ ~ret.args.child_option
    /\ ret.args.parent_option_name # PyNone
    /\ Cardinality(SuppliedDefaults(ret.args)) = 1
    /\ ret.out.kind = "raise"

----------------------------------------------------------------------------
(* Claims on Option.validate and Config.fetch *)

\* C6: validate changes config only at the option's own key: a present name
\* leaves the mapping as it was and raises nothing, even when the value does
\* not match the declared type; an absent name with set_defaults gets
\* get_default(run_id, run_defaults) while every other key is unchanged; an
\* absent name without set_defaults stays absent. A second validate with the
\* same arguments on the same mapping changes nothing.
C6_ValidateFrame ==
    ret.op = "validate" =>
        LET name == option.name
            before == ret.cfgBefore
            after == config.map
            d == get_default(option, ret.run_id, ret.run_defaults, ret.callsBefore)
            again == validate(option, after, ret.run_id, ret.run_defaults,
                              ret.set_defaults, factoryCalls)
        IN  /\ \A k \in ((DOMAIN before) \cup (DOMAIN after)) \ {name} :
                  k \in DOMAIN before /\ k \in DOMAIN after /\ after[k] = before[k]
            /\ name \in DOMAIN before =>
                  after = before /\ ret.out.kind = "return"
            /\ (name \notin DOMAIN before /\ ret.set_defaults /\ d.kind = "return") =>
                  /\ name \in DOMAIN after
                  /\ after[name] = d.value
                  /\ ret.out.kind = "return"
            /\ (name \notin DOMAIN before /\ ret.set_defaults /\ d.kind = "raise") =>
                  after = before /\ ret.out = d
            /\ (name \notin DOMAIN before /\ ~ret.set_defaults) =>
                  after = before /\ ret.out.kind = "return"
            /\ again.cfg = after

\* C6 witness: validate of an option typed int on a mapping that holds the
\* text value s0 under its name returns without an error
C6_Witness ==
    /\ ret.op = "validate"
    /\ option.type = "int"
    /\ option.name \in DOMAIN ret.cfgBefore
    /\ ~IsInstance(ret.cfgBefore[option.name], option.type)
    /\ ret.out.kind = "return"
    /\ "b" \in DOMAIN config.map

\* C7: reading an attribute-bound option raises AttributeError "Plugin has
\* not been configured" if the plugin has no config mapping; otherwise yields
\* the value under the option's name in plugin.config if present, regardless of
\* any default; otherwise get_default(plugin.run_id). The read never modifies
\* plugin.config.
C7_FetchResolution ==
    ret.op = "fetch" =>
        /\ config = ret.cfgBefore
        /\ IF ~ret.cfgBefore.has
           THEN /\ ret.out.kind = "raise"
                /\ ret.out.exc = "AttributeError"
                /\ ret.out.about = <<"Plugin has not been configured.">>
           ELSE IF option.name \in DOMAIN ret.cfgBefore.map
           THEN /\ ret.out.kind = "return"
                /\ ret.out.value = ret.cfgBefore.map[option.name]
                /\ ret.out.calls = ret.callsBefore
           ELSE ret.out = get_default(option, ret.run_id, NoneDict, ret.callsBefore)

\* C7 witness: an option with a static default read from a plugin whose
\* config holds another value under its name yields the config's value
C7_Witness ==
    /\ ret.op = "fetch"
    /\ option.default # Omitted
    /\ ret.cfgBefore.has
    /\ option.name \in DOMAIN ret.cfgBefore.map
    /\ ret.out.kind = "return"
    /\ ret.out.value = config.map[option.name]
    /\ ret.out.value # option.default

----------------------------------------------------------------------------
(* Claims on option registration *)

RegistrationStep == ret.op \in {"takes_config", "set_name"}

RaisedTwice ==
    /\ ret.out.kind = "raise"
    /\ ret.out.exc = "RuntimeError"
    /\ ret.out.about = <<"specify option twice">>

\* C4: two Option instances with equal name passed to one takes_config call
\* raise the authoring error "attempt to specify option twice", whether or
\* not the class already carries an inherited registry.
C4_DuplicateInOneCallRaises ==
    (/\ ret.op = "takes_config"
     /\ \E i, j \in 1..Len(ret.names) : i < j /\ ret.names[i] = ret.names[j])
        => RaisedTwice

\* The names a step declares, and the identity of the last option declared
\* under a name
DeclaredNames == {ret.names[i] : i \in 1..Len(ret.names)}

LastDeclared(n) == ret.ids[SetMax({i \in 1..Len(ret.names) : ret.names[i] = n})]

\* The registry the class carried when the step began: its own, or the one
\* it inherits from its base
CarriedBefore == Lookup(ret.before, ret.cls)

\* C5: for every registration step (takes_config decoration or Config
\* attribute binding) of a chain on a class that carries a non-empty registry
\* R, inherited from its base: the step raises "attempt to specify option
\* twice" if and only if a newly declared name is already a key of R; otherwise
\* the class's registry becomes exactly the union of R and the newly declared
\* name -> Option entries; in both cases the registry of the base class (of
\* every other class) is still what it was.
C5_MergeRule ==
    (RegistrationStep /\ CarriedBefore.has /\ DOMAIN CarriedBefore.map # {}) =>
        LET R == CarriedBefore.map
            collides == DeclaredNames \cap DOMAIN R # {}
            now == registry[ret.cls]
        IN  /\ RaisedTwice <=> collides
            /\ collides => registry = ret.before
            /\ ~collides =>
                  /\ now.has
                  /\ DOMAIN now.map = (DOMAIN R) \cup DeclaredNames
                  /\ \A n \in DOMAIN R : now.map[n] = R[n]
                  /\ \A n \in DeclaredNames : now.map[n] = LastDeclared(n)
            /\ \A c \in Classes \ {ret.cls} : registry[c] = ret.before[c]

\* C5 witness: Child, which inherits {b -> 1} from Parent, binds a Config
\* under the name a: its registry is {a -> 2, b -> 1}, Parent's is {b -> 1}
C5_Witness ==
    /\ ret.op = "set_name"
    /\ ret.cls = "Child"
    /\ ~ret.before["Child"].has
    /\ ret.out.kind = "return"
    /\ registry["Child"] = Registry([a |-> 2, b |-> 1])
    /\ registry["Parent"] = Registry([b |-> 1])

----------------------------------------------------------------------------
(* Claims on combine_configs *)

\* The new mapping of a call, an omitted one being the empty mapping
NewOrEmpty == IF ret.new.isNone THEN EmptyDict ELSE ret.new.map

\* m has the keys of a and of b, b's value on the keys of b and a's value on
\* the others
Overlays(m, a, b) ==
    /\ DOMAIN m = (DOMAIN a) \cup (DOMAIN b)
    /\ \A k \in DOMAIN b : m[k] = b[k]
    /\ \A k \in (DOMAIN a) \ (DOMAIN b) : m[k] = a[k]

\* C8: combine_configs(old, new, mode) returns, for mode "update", the
\* mapping with the keys of old and new where new's value wins on every
\* shared key; for mode "setdefault", the mapping with the keys of old and new
\* where old's value wins on every shared key, which is what
\* combine_configs(new, old, "update") returns; for mode "replace", exactly
\* new; for any other mode it raises an error. An omitted new is treated as
\* the empty mapping.
C8_CombineModes ==
    ret.op = "combine_configs" =>
        LET old == ret.old
            new == NewOrEmpty
        IN  /\ ret.mode = "update" =>
                  ret.out.kind = "return" /\ Overlays(ret.out.value, old, new)
            /\ ret.mode = "setdefault" =>
                  /\ ret.out.kind = "return"
                  /\ Overlays(ret.out.value, new, old)
                  /\ ret.out = combine_configs(SomeDict(new), SomeDict(old), "update")
            /\ ret.mode = "replace" =>
                  ret.out.kind = "return" /\ ret.out.value = new
            /\ ret.mode \notin {"update", "setdefault", "replace"} =>
                  ret.out.kind = "raise"

\* C8 witness: setdefault on mappings that share a key with different
\* values, each with a key of its own: the shared key keeps old's value
C8_Witness ==
    /\ ret.op = "combine_configs"
    /\ ret.mode = "setdefault"
    /\ ret.old = [a |-> "i0"]
    /\ ret.new = SomeDict([a |-> "i1", b |-> "i1"])
    /\ ret.out.kind = "return"
    /\ ret.out.value = [a |-> "i0", b |-> "i1"]

----------------------------------------------------------------------------
(* Claims on sorted_bounds *)

\* Half-open ranges [p[1], p[2]) and [q[1], q[2]) share a point
Overlap(p, q) == p[1] < q[2] /\ q[1] < p[2]

\* C9: every sample produced by sorted_bounds(disjoint=True) is a list of
\* 2-tuples (left, right) that is sorted, has left < right in every tuple,
\* and holds no two bounds whose half-open ranges [left, right) overlap.
C9_DisjointSamples ==
    (ret.op = "sorted_bounds" /\ ret.disjoint /\ ret.kept) =>
        LET bs == ret.bounds
        IN  /\ \A i \in 1..Len(bs) :
                  /\ DOMAIN bs[i] = 1..2
                  /\ bs[i][1] \in Nat /\ bs[i][2] \in Nat
                  /\ bs[i][1] < bs[i][2]
            /\ \A i, j \in 1..Len(bs) : i < j => ~TupleLess(bs[j], bs[i])
            /\ \A i, j \in 1..Len(bs) : i # j => ~Overlap(bs[i], bs[j])

\* C9 witness: a sample of two bounds that touch, the first ending where the
\* second begins, drawn from a raw list holding a zero
C9_Witness ==
    /\ ret.op = "sorted_bounds"
    /\ ret.disjoint
    /\ ret.kept
    /\ Len(ret.bounds) = 2
    /\ ret.bounds[1][2] = ret.bounds[2][1]
    /\ \E i \in 1..Len(ret.raw) : ret.raw[i] = 0

----------------------------------------------------------------------------
(* Claims on bounds_to_records *)

\* The samples of a waveform buffer that are 1 (positions from 0)
OnesOf(data) == {j \in 0..(Len(data) - 1) : data[j + 1] = 1}

\* C10: for every list of bounds (left, right) with 0 <= left < right,
\* bounds_to_records with single=False yields one record per bound: record i
\* has time = left, dt = 1, channel = i (0 for every record when
\* single_channel is set) and a waveform buffer of n_samples samples in which
\* exactly right - left samples are 1, one contiguous run that starts at
\* pad = (n_samples - (right - left)) div 2 and fits inside the buffer;
\* neither assertion of the code fails.
C10_DefaultModeRecords ==
    (ret.op = "bounds_to_records" /\ ~ret.single) =>
        /\ ret.out.kind = "return"
        /\ Len(ret.out.value) = Len(ret.bs)
        /\ \A i \in 1..Len(ret.bs) :
             LET rec == ret.out.value[i]
                 left == ret.bs[i][1]
                 right == ret.bs[i][2]
                 n == NSamples(ret.bs)
                 pad == (n - (right - left)) \div 2
             IN  /\ rec.time = left
                 /\ rec.dt = 1
                 /\ rec.channel = IF ret.single_channel THEN 0 ELSE i - 1
                 /\ Len(rec.data) = n
                 /\ \A j \in 1..n : rec.data[j] \in {0, 1}
                 /\ Cardinality(OnesOf(rec.data)) = right - left
                 /\ OnesOf(rec.data) = pad..(pad + (right - left) - 1)
                 /\ 0 <= pad /\ pad + (right - left) <= n

\* C10 witness: two bounds of different spans in channels 0 and 1, the
\* shorter one padded on both sides
C10_Witness ==
    /\ ret.op = "bounds_to_records"
    /\ ~ret.single
    /\ ~ret.single_channel
    /\ ret.bs = <<<<0, 2>>, <<1, 4>>>>
    /\ ret.out.kind = "return"
    /\ ret.out.value[1].channel = 0
    /\ ret.out.value[2].channel = 1
    /\ ret.out.value[1].data = <<0, 1, 1, 0>>
    /\ ret.out.value[2].data = <<1, 1, 1, 0>>

----------------------------------------------------------------------------
(* Claims on the range of sorted_bounds *)

\* The endpoints of the bounds of the sample drawn
Endpoints == UNION {{ret.bounds[i][1], ret.bounds[i][2]} : i \in 1..Len(ret.bounds)}

\* C11: every endpoint of every bound yielded by sorted_bounds(disjoint,
\* max_value, max_len) lies in [0, max_value) for the max_value the caller
\* passed; in disjoint mode too, where max_value is divided by max_len before
\* the raw list is drawn and the endpoints are its cumulative sums.
C11_EndpointsBelowMaxValue ==
    (ret.op = "sorted_bounds" /\ ret.kept) =>
        \A e \in Endpoints : 0 <= e /\ e < MaxValue

\* The part of C11 on disjoint mode alone, with the closed range
\* [0, max_value]: a cumulative sum never exceeds the max_value passed
DisjointSumsWithinMaxValue ==
    (ret.op = "sorted_bounds" /\ ret.kept /\ ret.disjoint) =>
        \A e \in Endpoints : 0 <= e /\ e <= MaxValue

\* What the code does keep: an endpoint is at most max_value when not
\* disjoint, and at most max_size times the divided max_value when disjoint
EndpointsWithinReach ==
    (ret.op = "sorted_bounds" /\ ret.kept) =>
        \A e \in Endpoints :
            /\ 0 <= e
            /\ e <= IF ret.disjoint THEN MaxSize * ElementMax(TRUE) ELSE MaxValue

----------------------------------------------------------------------------
(* Claims on the ChildPlugin fixture *)

\* The names a decorator of the fixtures declares
DeclNames(decls) == {decls[i].name : i \in 1..Len(decls)}

\* Every option declared as a child override is linked to its parent
ChildOverridesLinked ==
    \A i \in 1..Len(ChildDecls) :
        ChildDecls[i].child_option => ChildDecls[i].parent_option_name # PyNone

\* C12: the ChildPlugin fixture's declarations are valid under the Option
\* model: constructing its five Options raises no authoring error, and once
\* they are registered every child override carries a parent_option_name link
\* and ChildPlugin's registry holds the parent's four options plus the
\* child's five.
C12_ChildPluginFixtureValid ==
    /\ loading.at # "failed"
    /\ loading.at = "done" =>
          /\ ChildOverridesLinked
          /\ registry["Child"].has
          /\ DOMAIN registry["Child"].map = DeclNames(ParentDecls) \cup DeclNames(ChildDecls)
          /\ Cardinality(DOMAIN registry["Child"].map) = 9

\* What the code does: ParentPlugin registers its four options, and the
\* import never gets past the first Option of ChildPlugin's decorator
ChildPluginNeverDefined ==
    /\ loading.at # "done"
    /\ ~registry["Child"].has
    /\ loading.at = "failed" =>
          /\ loading.exc = "ValueError"
          /\ loading.name = "by_child_overwrite_option_child"
          /\ DOMAIN registry["Parent"].map = DeclNames(ParentDecls)

====
